---- MODULE Spec2Model ----
(***************************************************************************)
(* Model of pkcs1::document::public_key::RsaPublicKeyDocument: a byte      *)
(* buffer that is only ever built through the validating TryFrom           *)
(* conversions, with its DER, PEM, typed-key and file conversions.         *)
(*                                                                         *)
(* Bytes are numbers 0..255, byte strings are sequences of them.  The DER  *)
(* codec of RsaPublicKey (crate::public_key and the der crate) and the PEM *)
(* codec (pem-rfc7468) are collaborators of the document; they are         *)
(* modelled by what they do on short-form DER and on base64 sextets.       *)
(***************************************************************************)
EXTENDS Integers, Sequences, FiniteSets, TLC

VARIABLES
    docs,    \* slot -> the RsaPublicKeyDocument alive in it (or NoDoc)
    fs,      \* path -> the file stored under it (or NoFile)
    result   \* the last operation: its name, arguments and outcome

vars == <<docs, fs, result>>

(***************************************************************************)
(* Bounds of the model.                                                    *)
(***************************************************************************)
\* Number of documents that can be alive at once.
MaxDocs == 2
\* der::Length::MAX scaled down: the longest DER message the codec handles.
MaxDerLen == 10

Slots == 1..MaxDocs
Paths == {"key.file"}

(***************************************************************************)
(* DER codec of RsaPublicKey ::= SEQUENCE { modulus INTEGER,               *)
(*                                          publicExponent INTEGER }       *)
(***************************************************************************)
TAG_INTEGER == 2
TAG_SEQUENCE == 48

\* A typed key view: the two fields as big-endian bytes without leading zeros
\* (der::asn1::UIntBytes).
NoKey == [modulus |-> <<>>, public_exponent |-> <<>>]

\* UIntBytes::encode: tag, length, a 0x00 pad when the top bit is set, value.
EncodeUInt(val) ==
    LET padded == IF val[1] >= 128 THEN <<0>> \o val ELSE val
    IN  <<TAG_INTEGER, Len(padded)>> \o padded

\* The DER bytes of a key with no limit on length applied.
RawEncodeKey(key) ==
    LET body == EncodeUInt(key.modulus) \o EncodeUInt(key.public_exponent)
    IN  <<TAG_SEQUENCE, Len(body)>> \o body

\* Encodable::to_vec of RsaPublicKey: fails with Overflow when the message is
\* longer than the codec's maximum length.
to_vec(key) ==
    LET raw == RawEncodeKey(key)
    IN  IF Len(raw) > MaxDerLen
        THEN [ok |-> FALSE, bytes |-> <<>>]
        ELSE [ok |-> TRUE, bytes |-> raw]

\* der's uint::decode_slice on the value bytes of an INTEGER.
DecodeUIntValue(v) ==
    IF Len(v) = 0 THEN [ok |-> FALSE, val |-> <<>>]
    ELSE IF Len(v) = 1 THEN
        IF v[1] >= 128 THEN [ok |-> FALSE, val |-> <<>>]
        ELSE [ok |-> TRUE, val |-> v]
    ELSE IF v[1] = 0 THEN
        IF v[2] < 128 THEN [ok |-> FALSE, val |-> <<>>]
        ELSE [ok |-> TRUE, val |-> Tail(v)]
    ELSE IF v[1] >= 128 THEN [ok |-> FALSE, val |-> <<>>]
    ELSE [ok |-> TRUE, val |-> v]

\* Decoder::decode::<UIntBytes>: one INTEGER taken from the front of s.
DecodeUInt(s) ==
    IF Len(s) < 2 \/ s[1] # TAG_INTEGER \/ s[2] >= 128 \/ Len(s) - 2 < s[2]
    THEN [ok |-> FALSE, val |-> <<>>, rest |-> <<>>]
    ELSE LET d == DecodeUIntValue(SubSeq(s, 3, 2 + s[2]))
         IN  [ok |-> d.ok, val |-> d.val, rest |-> SubSeq(s, 3 + s[2], Len(s))]

\* RsaPublicKey::try_from(&[u8]): Decodable::from_der, i.e. a SEQUENCE holding
\* exactly two INTEGERs and nothing after it.
DecodeKey(bytes) ==
    IF \/ Len(bytes) > MaxDerLen
       \/ Len(bytes) < 2
       \/ bytes[1] # TAG_SEQUENCE
       \/ bytes[2] >= 128
       \/ Len(bytes) - 2 # bytes[2]
    THEN [ok |-> FALSE, key |-> NoKey]
    ELSE LET m == DecodeUInt(SubSeq(bytes, 3, Len(bytes)))
             e == DecodeUInt(m.rest)
         IN  IF m.ok /\ e.ok /\ Len(e.rest) = 0
             THEN [ok |-> TRUE,
                   key |-> [modulus |-> m.val, public_exponent |-> e.val]]
             ELSE [ok |-> FALSE, key |-> NoKey]

(***************************************************************************)
(* PEM codec.  A text is its pre-encapsulation label, its base64 body as   *)
(* sextets (PAD for '=') and its post-encapsulation label.                 *)
(***************************************************************************)
PAD == 64

\* -----BEGIN RSA PUBLIC KEY-----
PEM_TYPE_LABEL == "RSA PUBLIC KEY"
\* The label of the private-key document kind.
PRIVATE_KEY_LABEL == "RSA PRIVATE KEY"

NoText == [begin |-> "", body |-> <<>>, end |-> ""]

RECURSIVE B64Encode(_)
B64Encode(b) ==
    IF Len(b) = 0 THEN <<>>
    ELSE IF Len(b) = 1 THEN
        <<b[1] \div 4, (b[1] % 4) * 16, PAD, PAD>>
    ELSE IF Len(b) = 2 THEN
        <<b[1] \div 4, (b[1] % 4) * 16 + (b[2] \div 16), (b[2] % 16) * 4, PAD>>
    ELSE <<b[1] \div 4,
           (b[1] % 4) * 16 + (b[2] \div 16),
           (b[2] % 16) * 4 + (b[3] \div 64),
           b[3] % 64>> \o B64Encode(SubSeq(b, 4, Len(b)))

RECURSIVE B64Decode(_)
B64Decode(s) ==
    IF Len(s) = 0 THEN [ok |-> TRUE, bytes |-> <<>>]
    ELSE IF Len(s) < 4 \/ s[1] = PAD \/ s[2] = PAD
    THEN [ok |-> FALSE, bytes |-> <<>>]
    ELSE LET b1 == s[1] * 4 + (s[2] \div 16)
             b2 == (s[2] % 16) * 16 + (s[3] \div 4)
             b3 == (s[3] % 4) * 64 + s[4]
         IN  IF s[3] = PAD THEN
                 IF s[4] = PAD /\ Len(s) = 4 /\ s[2] % 16 = 0
                 THEN [ok |-> TRUE, bytes |-> <<b1>>]
                 ELSE [ok |-> FALSE, bytes |-> <<>>]
             ELSE IF s[4] = PAD THEN
                 IF Len(s) = 4 /\ s[3] % 4 = 0
                 THEN [ok |-> TRUE, bytes |-> <<b1, b2>>]
                 ELSE [ok |-> FALSE, bytes |-> <<>>]
             ELSE LET r == B64Decode(SubSeq(s, 5, Len(s)))
                  IN  [ok |-> r.ok,
                       bytes |-> IF r.ok THEN <<b1, b2, b3>> \o r.bytes
                                 ELSE <<>>]

\* pem::encode_string(label, bytes): fails only when the encoded length
\* overflows, which no message the DER codec handles can cause.
encode_string(label, bytes) ==
    [ok |-> Len(bytes) <= MaxDerLen,
     text |-> IF Len(bytes) <= MaxDerLen
              THEN [begin |-> label, body |-> B64Encode(bytes), end |-> label]
              ELSE NoText]

\* pem::decode_vec(text): the label and the payload, or an error when a
\* boundary is missing, the boundaries disagree or the base64 is invalid.
decode_vec(s) ==
    LET b == B64Decode(s.body)
    IN  IF s.begin = "" \/ s.end # s.begin \/ ~b.ok
        THEN [ok |-> FALSE, label |-> "", bytes |-> <<>>]
        ELSE [ok |-> TRUE, label |-> s.begin, bytes |-> b.bytes]

(***************************************************************************)
(* Outcomes.  kind is "ok", "err" (a returned Err) or "panic".             *)
(***************************************************************************)
Ok(bytes) == [kind |-> "ok", err |-> "", bytes |-> bytes]
Err(e) == [kind |-> "err", err |-> e, bytes |-> <<>>]
Panic(msg) == [kind |-> "panic", err |-> msg, bytes |-> <<>>]

\* error::DER_ENCODING_MSG and error::PEM_ENCODING_MSG, the expect() messages.
DER_ENCODING_MSG == "DER encoding error"
PEM_ENCODING_MSG == "PEM encoding error"

(***************************************************************************)
(* RsaPublicKeyDocument(Vec<u8>)                                           *)
(***************************************************************************)
NoDoc == [live |-> FALSE, bytes |-> <<>>]
Doc(bytes) == [live |-> TRUE, bytes |-> bytes]

\* Variant of try_from_slice: the decoder's verdict is dropped (a missing `?`).
try_from_slice_unchecked(bytes) == Ok(bytes)

\* Variant of try_from_slice: the decoder's inner slice (the SEQUENCE body) is
\* stored instead of the caller's bytes.
try_from_slice_body(bytes) ==
    IF ~DecodeKey(bytes).ok THEN Err("Asn1")
    ELSE Ok(SubSeq(bytes, 3, Len(bytes)))

\* impl TryFrom<&[u8]>: validate, then own a copy of the caller's bytes.
try_from_slice(bytes) ==
    IF ~DecodeKey(bytes).ok THEN Err("Asn1")
    ELSE Ok(bytes)

\* Variant of try_from_vec: the decoder's verdict is dropped (a missing `?`).
try_from_vec_unchecked(bytes) == Ok(bytes)

\* impl TryFrom<Vec<u8>>: validate, then take the caller's vector.
try_from_vec(bytes) ==
    IF ~DecodeKey(bytes).ok THEN Err("Asn1")
    ELSE Ok(bytes)

\* RsaPublicKeyDocument::from_der
from_der(bytes) == try_from_slice(bytes)

\* Variant of from_pem: the payload is validated before the label is compared.
from_pem_validate_first(s) ==
    LET d == decode_vec(s)
    IN  IF ~d.ok THEN Err("Pem")
        ELSE LET r == from_der(d.bytes)
             IN  IF r.kind # "ok" THEN r
                 ELSE IF d.label # PEM_TYPE_LABEL THEN Err("PemLabel")
                 ELSE r

\* RsaPublicKeyDocument::from_pem (and FromStr::from_str, which calls it)
from_pem(s) ==
    LET d == decode_vec(s)
    IN  IF ~d.ok THEN Err("Pem")
        ELSE IF d.label # PEM_TYPE_LABEL THEN Err("PemLabel")
        ELSE from_der(d.bytes)

from_str(s) == from_pem(s)

\* Variant of to_pem: the label of the private-key document is emitted.
to_pem_private_label(self) ==
    LET e == encode_string(PRIVATE_KEY_LABEL, self.bytes)
    IN  IF ~e.ok THEN [kind |-> "panic", err |-> PEM_ENCODING_MSG, text |-> NoText]
        ELSE [kind |-> "ok", err |-> "", text |-> e.text]

\* RsaPublicKeyDocument::to_pem
to_pem(self) ==
    LET e == encode_string(PEM_TYPE_LABEL, self.bytes)
    IN  IF ~e.ok THEN [kind |-> "panic", err |-> PEM_ENCODING_MSG, text |-> NoText]
        ELSE [kind |-> "ok", err |-> "", text |-> e.text]

\* RsaPublicKeyDocument::public_key
public_key(self) ==
    LET k == DecodeKey(self.bytes)
    IN  IF ~k.ok
        THEN [kind |-> "panic", err |-> "malformed PublicKeyDocument", key |-> NoKey]
        ELSE [kind |-> "ok", err |-> "", key |-> k.key]

\* impl AsRef<[u8]>
as_ref(self) == self.bytes

\* Variant of from_key_ref: a failure is returned as an error value.
from_key_ref_returning_err(spki) ==
    LET e == to_vec(spki)
    IN  IF ~e.ok THEN Err("EncodingFailure")
        ELSE LET r == try_from_vec(e.bytes)
             IN  IF r.kind # "ok" THEN Err("EncodingFailure") ELSE r

\* Variant of from_key_ref: the two fields are encoded in the wrong order.
from_key_ref_swapped(spki) ==
    LET e == to_vec([modulus |-> spki.public_exponent,
                     public_exponent |-> spki.modulus])
    IN  IF ~e.ok THEN Panic(DER_ENCODING_MSG)
        ELSE LET r == try_from_vec(e.bytes)
             IN  IF r.kind # "ok" THEN Panic(DER_ENCODING_MSG) ELSE r

\* impl From<&RsaPublicKey<'_>>
from_key_ref(spki) ==
    LET e == to_vec(spki)
    IN  IF ~e.ok THEN Panic(DER_ENCODING_MSG)
        ELSE LET r == try_from_vec(e.bytes)
             IN  IF r.kind # "ok" THEN Panic(DER_ENCODING_MSG) ELSE r

\* impl From<RsaPublicKey<'_>>
from_key(spki) == from_key_ref(spki)

\* Variant of clone: the buffer is moved out of the original (mem::take).
clone_moving(ds, s, t) == [ds EXCEPT ![t] = Doc(ds[s].bytes), ![s] = Doc(<<>>)]

\* #[derive(Clone)]: the clone goes to slot t, the original stays in slot s.
clone(ds, s, t) == [ds EXCEPT ![t] = Doc(ds[s].bytes)]

\* impl fmt::Debug: formats self.public_key()
fmt(self) == public_key(self)

(***************************************************************************)
(* Files.  A file holds bytes or, when a text was written to it, that text.*)
(* wr and wdoc remember which operation wrote the file last and the bytes  *)
(* of the document it wrote.                                               *)
(***************************************************************************)
NoFile == [exists |-> FALSE, isText |-> FALSE, bytes |-> <<>>, text |-> NoText,
           wr |-> "", wdoc |-> <<>>]
BinFile(bytes) == [exists |-> TRUE, isText |-> FALSE, bytes |-> bytes,
                   text |-> NoText, wr |-> "", wdoc |-> <<>>]
TextFile(text) == [exists |-> TRUE, isText |-> TRUE, bytes |-> <<>>,
                   text |-> text, wr |-> "", wdoc |-> <<>>]

\* str::as_bytes of a PEM text: it starts with "-----"; the rest is not
\* rendered, a DER decoder rejects it at the first byte.
TextAsBytes(text) == <<45, 45, 45, 45, 45>>

\* Whether bytes are UTF-8.  No byte of the model is a multi-byte lead byte,
\* so a sequence is UTF-8 exactly when all of its bytes are ASCII.
IsUtf8(bytes) == \A i \in 1..Len(bytes) : bytes[i] < 128

\* std::fs::read, with the From<io::Error> conversion of crate::Error.
fs_read(file, io) ==
    IF ~file.exists THEN Err("FileNotFound")
    ELSE IF io # "ok" THEN Err("Io")
    ELSE Ok(IF file.isText THEN TextAsBytes(file.text) ELSE file.bytes)

\* std::fs::read_to_string.  Bytes that were not written as a PEM text read
\* as a string without encapsulation boundaries, or fail as invalid UTF-8.
fs_read_to_string(file, io) ==
    IF ~file.exists THEN [kind |-> "err", err |-> "FileNotFound", text |-> NoText]
    ELSE IF io # "ok" THEN [kind |-> "err", err |-> "Io", text |-> NoText]
    ELSE IF file.isText THEN [kind |-> "ok", err |-> "", text |-> file.text]
    ELSE IF ~IsUtf8(file.bytes) THEN [kind |-> "err", err |-> "Io", text |-> NoText]
    ELSE [kind |-> "ok", err |-> "", text |-> NoText]

\* std::fs::write: creates or truncates the file, then writes the content.
\* io = "fail_open" fails before the file is touched, "fail_write" after it
\* was truncated.
fs_write(file, content, io) ==
    IF io = "fail_open" THEN [kind |-> "err", err |-> "Io", file |-> file]
    ELSE IF io = "fail_write" THEN [kind |-> "err", err |-> "Io", file |-> BinFile(<<>>)]
    ELSE [kind |-> "ok", err |-> "", file |-> content]

\* Variant of read_der_file: the bytes read are wrapped without validation.
read_der_file_unchecked(file, io) ==
    LET r == fs_read(file, io)
    IN  IF r.kind # "ok" THEN Err(r.err) ELSE Ok(r.bytes)

\* RsaPublicKeyDocument::read_der_file
read_der_file(file, io) ==
    LET r == fs_read(file, io)
    IN  IF r.kind # "ok" THEN Err(r.err) ELSE try_from_vec(r.bytes)

\* RsaPublicKeyDocument::read_pem_file
read_pem_file(file, io) ==
    LET r == fs_read_to_string(file, io)
    IN  IF r.kind # "ok" THEN Err(r.err) ELSE from_pem(r.text)

\* Variant of write_der_file: the PEM text is written to the binary file.
write_der_file_as_pem(self, file, io) ==
    fs_write(file, TextFile(encode_string(PEM_TYPE_LABEL, self.bytes).text), io)

\* RsaPublicKeyDocument::write_der_file
write_der_file(self, file, io) == fs_write(file, BinFile(as_ref(self)), io)

\* RsaPublicKeyDocument::write_pem_file
write_pem_file(self, file, io) ==
    LET t == to_pem(self)
    IN  IF t.kind # "ok" THEN [kind |-> "panic", err |-> t.err, file |-> file]
        ELSE fs_write(file, TextFile(t.text), io)

(***************************************************************************)
(* Inputs the callers supply.                                              *)
(***************************************************************************)
\* Field values of caller-built keys: the moduli 128 (needs the 0x00 pad) and
\* 65537, the exponents 3 and 0x800001 (three bytes, needs the pad).
ModulusVals == {<<128>>, <<1, 0, 1>>}
ExponentVals == {<<3>>, <<128, 0, 1>>}
Keys == [modulus : ModulusVals, public_exponent : ExponentVals]

\* 30 07 02 02 00 80 02 01 03
BaseDer == RawEncodeKey([modulus |-> <<128>>, public_exponent |-> <<3>>])

Patch(b, i, x) == [b EXCEPT ![i] = x]

\* Truncations (nothing, the tag alone, the header alone, inside the first
\* INTEGER, the last byte missing), wrong tags, wrong length prefixes, a
\* long-form length, trailing data, a non-minimal and a negative INTEGER.
Malformed(b) ==
    {SubSeq(b, 1, n) : n \in {0, 1, 2, 4, Len(b) - 1}}
    \cup {Patch(b, 1, 49), Patch(b, 3, 4),
          Patch(b, 2, b[2] + 1), Patch(b, 2, b[2] - 1), Patch(b, 2, 129),
          Patch(b, 6, 1), Patch(b, 9, 255), b \o <<0>>}

DerInputs == {RawEncodeKey(k) : k \in Keys} \cup Malformed(BaseDer)

PemText(label, bytes) == [begin |-> label, body |-> B64Encode(bytes), end |-> label]

PemPayloads ==
    {BaseDer, RawEncodeKey([modulus |-> <<1, 0, 1>>, public_exponent |-> <<3>>]),
     SubSeq(BaseDer, 1, 5)}

PemInputs ==
    {PemText(l, b) : l \in {PEM_TYPE_LABEL, PRIVATE_KEY_LABEL}, b \in PemPayloads}
    \cup {[begin |-> PEM_TYPE_LABEL, body |-> B64Encode(BaseDer), end |-> PRIVATE_KEY_LABEL],
          [begin |-> PEM_TYPE_LABEL, body |-> <<12, 0, PAD>>, end |-> PEM_TYPE_LABEL],
          [begin |-> PRIVATE_KEY_LABEL, body |-> <<12, 1, PAD, PAD>>, end |-> PRIVATE_KEY_LABEL],
          NoText}

\* What another program may leave under a path.
ExternalFiles ==
    {BinFile(BaseDer), BinFile(SubSeq(BaseDer, 1, 5)), BinFile(<<48, 0>>),
     TextFile(PemText(PEM_TYPE_LABEL, BaseDer)),
     TextFile(PemText(PRIVATE_KEY_LABEL, BaseDer))}

(***************************************************************************)
(* The state machine: one action per operation of the document.            *)
(***************************************************************************)
NoResult ==
    [op |-> "init", src |-> 0, dst |-> 0, path |-> "", io |-> "",
     in_bytes |-> <<>>, in_text |-> NoText, in_key |-> NoKey,
     kind |-> "", err |-> "", bytes |-> <<>>, text |-> NoText, key |-> NoKey]

Init ==
    /\ docs = [s \in Slots |-> NoDoc]
    /\ fs = [p \in Paths |-> NoFile]
    /\ result = NoResult

Live == {s \in Slots : docs[s].live}
Free == {s \in Slots : ~docs[s].live}
\* The slot a newly built document is kept in; 0 when every slot is taken and
\* the document is a temporary, dropped as soon as the call has returned.
NewSlot == IF Free = {} THEN 0 ELSE CHOOSE t \in Free : \A u \in Free : t <= u

\* A constructor returned r: on Ok the document is kept in slot t (if any), and
\* its bytes are recorded as returned.
Built(op, r, t) ==
    /\ docs' = IF r.kind = "ok" /\ t # 0 THEN [docs EXCEPT ![t] = Doc(r.bytes)]
               ELSE docs
    /\ result' = [op EXCEPT !.dst = IF r.kind = "ok" THEN t ELSE 0,
                            !.kind = r.kind, !.err = r.err, !.bytes = r.bytes]

FromDer ==
    /\ \E b \in DerInputs :
         Built([NoResult EXCEPT !.op = "from_der", !.in_bytes = b],
               from_der(b), NewSlot)
    /\ UNCHANGED fs

TryFromVec ==
    /\ \E b \in DerInputs :
         Built([NoResult EXCEPT !.op = "try_from_vec", !.in_bytes = b],
               try_from_vec(b), NewSlot)
    /\ UNCHANGED fs

\* Texts a caller can pass: its own, or the one to_pem has just returned.
HeldTexts == IF result.op = "to_pem" /\ result.kind = "ok" THEN {result.text} ELSE {}

FromPem ==
    /\ \E s \in PemInputs \cup HeldTexts :
         Built([NoResult EXCEPT !.op = "from_pem", !.in_text = s],
               from_pem(s), NewSlot)
    /\ UNCHANGED fs

FromStr ==
    /\ \E s \in PemInputs \cup HeldTexts :
         Built([NoResult EXCEPT !.op = "from_str", !.in_text = s],
               from_str(s), NewSlot)
    /\ UNCHANGED fs

\* From<RsaPublicKey> on a key the caller built.
FromKey ==
    /\ \E k \in Keys :
         Built([NoResult EXCEPT !.op = "from_key", !.in_key = k],
               from_key(k), NewSlot)
    /\ UNCHANGED fs

\* From<&RsaPublicKey> on the view public_key() returns for a live document
\* (the view borrows the document, which therefore is still alive).
FromKeyOfDoc ==
    /\ \E s \in Live :
         LET v == public_key(docs[s])
         IN  /\ v.kind = "ok"
             /\ Built([NoResult EXCEPT !.op = "from_key_ref", !.src = s,
                                       !.in_key = v.key],
                      from_key_ref(v.key), NewSlot)
    /\ UNCHANGED fs

PublicKey ==
    /\ \E s \in Live :
         LET v == public_key(docs[s])
         IN  result' = [NoResult EXCEPT !.op = "public_key", !.src = s,
                                        !.kind = v.kind, !.err = v.err,
                                        !.key = v.key]
    /\ UNCHANGED <<docs, fs>>

DebugFmt ==
    /\ \E s \in Live :
         LET v == fmt(docs[s])
         IN  result' = [NoResult EXCEPT !.op = "fmt", !.src = s,
                                        !.kind = v.kind, !.err = v.err,
                                        !.key = v.key]
    /\ UNCHANGED <<docs, fs>>

AsRef ==
    /\ \E s \in Live :
         result' = [NoResult EXCEPT !.op = "as_ref", !.src = s, !.kind = "ok",
                                    !.bytes = as_ref(docs[s])]
    /\ UNCHANGED <<docs, fs>>

ToPem ==
    /\ \E s \in Live :
         LET t == to_pem(docs[s])
         IN  result' = [NoResult EXCEPT !.op = "to_pem", !.src = s,
                                        !.kind = t.kind, !.err = t.err,
                                        !.text = t.text]
    /\ UNCHANGED <<docs, fs>>

Clone ==
    /\ Free # {}
    /\ \E s \in Live :
         /\ docs' = clone(docs, s, NewSlot)
         /\ result' = [NoResult EXCEPT !.op = "clone", !.src = s, !.dst = NewSlot,
                                       !.kind = "ok", !.bytes = docs[s].bytes]
    /\ UNCHANGED fs

\* A document goes out of scope.
Drop ==
    /\ \E s \in Live :
         /\ docs' = [docs EXCEPT ![s] = NoDoc]
         /\ result' = [NoResult EXCEPT !.op = "drop", !.src = s, !.kind = "ok"]
    /\ UNCHANGED fs

ReadDerFile ==
    /\ \E p \in Paths, io \in {"ok", "fail"} :
         Built([NoResult EXCEPT !.op = "read_der_file", !.path = p, !.io = io],
               read_der_file(fs[p], io), NewSlot)
    /\ UNCHANGED fs

ReadPemFile ==
    /\ \E p \in Paths, io \in {"ok", "fail"} :
         Built([NoResult EXCEPT !.op = "read_pem_file", !.path = p, !.io = io],
               read_pem_file(fs[p], io), NewSlot)
    /\ UNCHANGED fs

\* The file a write leaves: on success it is stamped with the writer and the
\* bytes of the document written.
Written(w, op, self) ==
    IF w.kind = "ok" THEN [w.file EXCEPT !.wr = op, !.wdoc = self.bytes]
    ELSE w.file

WriteDerFile ==
    /\ \E s \in Live, p \in Paths, io \in {"ok", "fail_open", "fail_write"} :
         LET w == write_der_file(docs[s], fs[p], io)
         IN  /\ fs' = [fs EXCEPT ![p] = Written(w, "write_der_file", docs[s])]
             /\ result' = [NoResult EXCEPT !.op = "write_der_file", !.src = s,
                                           !.path = p, !.io = io,
                                           !.kind = w.kind, !.err = w.err]
    /\ UNCHANGED docs

WritePemFile ==
    /\ \E s \in Live, p \in Paths, io \in {"ok", "fail_open", "fail_write"} :
         LET w == write_pem_file(docs[s], fs[p], io)
         IN  /\ fs' = [fs EXCEPT ![p] = Written(w, "write_pem_file", docs[s])]
             /\ result' = [NoResult EXCEPT !.op = "write_pem_file", !.src = s,
                                           !.path = p, !.io = io,
                                           !.kind = w.kind, !.err = w.err]
    /\ UNCHANGED docs

\* Another program writes the file.
ExternalWrite ==
    /\ \E p \in Paths, f \in ExternalFiles :
         /\ fs' = [fs EXCEPT ![p] = f]
         /\ result' = [NoResult EXCEPT !.op = "external_write", !.path = p]
    /\ UNCHANGED docs

Next ==
    \/ FromDer
    \/ TryFromVec
    \/ FromPem
    \/ FromStr
    \/ FromKey
    \/ FromKeyOfDoc
    \/ PublicKey
    \/ DebugFmt
    \/ AsRef
    \/ ToPem
    \/ Clone
    \/ Drop
    \/ ReadDerFile
    \/ ReadPemFile
    \/ WriteDerFile
    \/ WritePemFile
    \/ ExternalWrite

Spec == Init /\ [][Next]_vars

(***************************************************************************)
(* Properties.                                                             *)
(***************************************************************************)
ConstructorOps ==
    {"from_der", "try_from_vec", "from_pem", "from_str", "from_key",
     "from_key_ref", "read_der_file", "read_pem_file", "clone"}
KeyOps == {"from_key", "from_key_ref"}
PemOps == {"from_pem", "from_str"}

\* What the last constructor returned, as an outcome.
Outcome(r) == [kind |-> r.kind, err |-> r.err, bytes |-> r.bytes]

\* C1: every document that exists holds bytes the binary decoder accepts, and
\* public_key() (also through Debug) never panics on a document.
C1_DocumentsDecode ==
    /\ \A s \in Slots : docs[s].live => DecodeKey(docs[s].bytes).ok
    /\ result.op \in ConstructorOps /\ result.kind = "ok"
         => DecodeKey(result.bytes).ok
    /\ result.op \in {"public_key", "fmt"} => result.kind = "ok"

C1_Witness ==
    /\ result.op = "public_key" /\ result.kind = "ok"
    /\ \A s \in Slots : docs[s].live
    /\ \E s, t \in Slots : docs[s].bytes # docs[t].bytes

\* C2: from_der on bytes the decoder accepts succeeds, and as_ref() of the
\* document returns exactly the caller's bytes.
C2_FromDerKeepsBytes ==
    result.op = "from_der" /\ DecodeKey(result.in_bytes).ok
        => /\ result.kind = "ok"
           /\ result.bytes = result.in_bytes
           /\ result.dst # 0 => /\ docs[result.dst].live
                                /\ as_ref(docs[result.dst]) = result.in_bytes

C2_Witness ==
    /\ result.op = "from_der" /\ result.kind = "ok" /\ result.dst # 0
    /\ Len(result.in_bytes) = MaxDerLen

\* C3: from_der and the TryFrom conversions on bytes the decoder rejects return
\* the decoder's error, and no document is produced.
C3_RejectsMalformed ==
    [][result'.op \in {"from_der", "try_from_vec"}
         /\ ~DecodeKey(result'.in_bytes).ok
       => /\ result'.kind = "err" /\ result'.err = "Asn1"
          /\ result'.dst = 0 /\ result'.bytes = <<>>
          /\ docs' = docs]_vars

C3_Witness ==
    /\ result.op = "try_from_vec" /\ result.kind = "err"
    /\ Len(result.in_bytes) > 2 /\ result.in_bytes[1] = TAG_SEQUENCE

\* C4: in from_pem, an envelope that decodes with a label other than
\* PEM_TYPE_LABEL gives the label error whatever its payload, and no document.
C4_LabelBeforeValidation ==
    [][LET d == decode_vec(result'.in_text)
       IN  result'.op \in PemOps /\ d.ok /\ d.label # PEM_TYPE_LABEL
           => /\ result'.kind = "err" /\ result'.err = "PemLabel"
              /\ result'.bytes = <<>>
              /\ docs' = docs]_vars

C4_Witness ==
    /\ result.op = "from_pem" /\ result.err = "PemLabel"
    /\ decode_vec(result.in_text).ok
    /\ ~DecodeKey(decode_vec(result.in_text).bytes).ok

\* C5: to_pem emits the fixed label, and from_pem of the text to_pem returned
\* for a document succeeds with that document's bytes.
C5_PemRoundTrip ==
    [][/\ result'.op = "to_pem"
          => /\ result'.kind = "ok"
             /\ result'.text.begin = PEM_TYPE_LABEL
             /\ result'.text.end = PEM_TYPE_LABEL
       /\ result.op = "to_pem" /\ result'.op \in PemOps
            /\ result'.in_text = result.text
          => /\ result'.kind = "ok"
             /\ result'.bytes = docs[result.src].bytes
             /\ result'.dst # 0
                  => docs'[result'.dst] = Doc(docs[result.src].bytes)]_vars

C5_Witness ==
    /\ result.op = "from_pem" /\ result.kind = "ok" /\ result.dst # 0
    /\ \E s \in Live :
         /\ s # result.dst
         /\ to_pem(docs[s]).text = result.in_text
         /\ docs[s].bytes = docs[result.dst].bytes

\* Whether building a document from the key fails: the encoder fails, or the
\* bytes it produced do not decode.
EncodingFails(key) == ~to_vec(key).ok \/ ~DecodeKey(to_vec(key).bytes).ok

C7_EncodeAfterDecode ==
    [][/\ result'.op = "from_key_ref" /\ result'.src # 0
          => result'.kind = "ok"
       /\ result.op = "from_key_ref" /\ result.src # 0 /\ result.dst # 0
            /\ result'.op = "public_key" /\ result'.src = result.dst
          => result'.kind = "ok" /\ result'.key = result.in_key
       /\ result.op = "from_key_ref" /\ result.src # 0 /\ result.dst # 0
            /\ result'.op = "from_key_ref" /\ result'.src = result.dst
          => /\ result'.kind = "ok"
             /\ result'.in_key = result.in_key
             /\ result'.bytes = result.bytes]_vars

C7_Witness ==
    /\ result.op = "from_key_ref" /\ result.src # 0 /\ result.kind = "ok"
    /\ result.dst = 0
    /\ result.in_key.modulus # result.in_key.public_exponent
    /\ \E s \in Live : s # result.src /\ docs[s].bytes = result.bytes

\* C8: reading a file that write_der_file (write_pem_file) wrote last, with
\* read_der_file (read_pem_file), gives a document with the bytes of the
\* document written; an I/O failure is returned as an error without a document.
C8_FileRoundTrip ==
    /\ result.op = "read_der_file" /\ result.io = "ok"
         /\ fs[result.path].wr = "write_der_file"
       => result.kind = "ok" /\ result.bytes = fs[result.path].wdoc
    /\ result.op = "read_pem_file" /\ result.io = "ok"
         /\ fs[result.path].wr = "write_pem_file"
       => result.kind = "ok" /\ result.bytes = fs[result.path].wdoc
    /\ result.op \in {"read_der_file", "read_pem_file"} /\ result.io # "ok"
       => /\ result.kind = "err" /\ result.err \in {"Io", "FileNotFound"}
          /\ result.bytes = <<>> /\ result.dst = 0
    /\ result.op \in {"write_der_file", "write_pem_file"}
       => IF result.io = "ok" THEN result.kind = "ok"
          ELSE result.kind = "err" /\ result.err = "Io"

C8_Witness ==
    /\ result.op = "read_pem_file" /\ result.kind = "ok" /\ result.dst # 0
    /\ fs[result.path].wr = "write_pem_file"
    /\ docs[result.dst].bytes = fs[result.path].wdoc

\* C9: a document's bytes never change: a step leaves every live document as
\* it is, or drops it.
C9_Immutable ==
    [][\A s \in Slots :
         docs[s].live
           => \/ docs'[s] = docs[s]
              \/ result'.op = "drop" /\ result'.src = s /\ ~docs'[s].live]_vars

C9_Witness ==
    /\ result.op = "clone" /\ result.dst # 0
    /\ docs[result.src].live /\ docs[result.dst].live
    /\ docs[result.src].bytes = docs[result.dst].bytes

\* C10: TryFrom<&[u8]> and TryFrom<Vec<u8>> give the same outcome on the same
\* bytes, and every document a constructor returns passes both.
C10_PathsEquivalent ==
    /\ result.op = "from_der" => try_from_vec(result.in_bytes) = Outcome(result)
    /\ result.op = "try_from_vec"
         => try_from_slice(result.in_bytes) = Outcome(result)
    /\ result.op \in ConstructorOps /\ result.kind = "ok"
         => /\ try_from_slice(result.bytes) = Ok(result.bytes)
            /\ try_from_vec(result.bytes) = Ok(result.bytes)
    /\ \A s \in Slots :
         docs[s].live => /\ try_from_slice(docs[s].bytes) = Ok(docs[s].bytes)
                         /\ try_from_vec(docs[s].bytes) = Ok(docs[s].bytes)

C10_Witness ==
    /\ result.op = "read_der_file" /\ result.kind = "ok" /\ result.dst # 0
    /\ fs[result.path].wr = ""

====
